---- MODULE Spec2Model ----
(***************************************************************************)
(* TOON format skill: the structural eligibility analyzer and the          *)
(* pre/post-processing pipeline (index.ts), and the constructor and the    *)
(* process method of AutoTOON (hooks.ts), both found in                    *)
(* src/unnamed/part_000.                                                   *)
(*                                                                         *)
(* JavaScript values are tagged records.  JavaScript numbers that the      *)
(* analysis computes by division are exact fractions [num, den]; the       *)
(* fraction 0/0 is NaN and 1/0 is Infinity, compared as IEEE-754 compares  *)
(* them.                                                                   *)
(***************************************************************************)
EXTENDS Integers, Sequences, FiniteSets, TLC

VARIABLES
    elig,      \* the eligibility objects on the heap, by reference
    config,    \* config[p]: the reference held in processor p's config.eligibility
    call,      \* the call last made (or, before it is made, about to be made)
    flight     \* flight[id]: the AutoTOON.process call id, its locals and position

vars == <<elig, config, call, flight>>

---------------------------------------------------------------------------
(* Bounds of the model.                                                    *)

MaxLen == 2        \* longest array enumerated
MaxWrap == 5       \* deepest chain of single-key objects around a seed value
MaxTokens == 3     \* longest response content, in tokens
MaxCalls == 2      \* AutoTOON.process calls made, and in flight at once

---------------------------------------------------------------------------
(* JavaScript numbers as fractions.                                        *)

RECURSIVE GCD(_, _)
GCD(a, b) == IF b = 0 THEN a ELSE GCD(b, a % b)

NaN == [num |-> 0, den |-> 0]
Infinity == [num |-> 1, den |-> 0]

Frac(n, d) ==
    IF d = 0 THEN (IF n = 0 THEN NaN ELSE Infinity)
    ELSE LET g == GCD(n, d) IN [num |-> n \div g, den |-> d \div g]

Whole(n) == [num |-> n, den |-> 1]

IsNaN(x) == x.num = 0 /\ x.den = 0

\* x / y for non-negative operands
JSDiv(x, y) ==
    IF IsNaN(x) \/ IsNaN(y) THEN NaN
    ELSE IF x.den = 0 THEN (IF y.den = 0 THEN NaN ELSE Infinity)
    ELSE IF y.den = 0 THEN Whole(0)
    ELSE Frac(x.num * y.den, x.den * y.num)

\* x * y for non-negative operands
JSMul(x, y) ==
    IF IsNaN(x) \/ IsNaN(y) THEN NaN
    ELSE IF x.den = 0 \/ y.den = 0
         THEN (IF x.num = 0 \/ y.num = 0 THEN NaN ELSE Infinity)
    ELSE Frac(x.num * y.num, x.den * y.den)

\* x + y for non-negative operands
JSAdd(x, y) ==
    IF IsNaN(x) \/ IsNaN(y) THEN NaN
    ELSE IF x.den = 0 \/ y.den = 0 THEN Infinity
    ELSE Frac(x.num * y.den + y.num * x.den, x.den * y.den)

\* x >= y, x <= y, x < y, x > y: every comparison with NaN is false
JSGe(x, y) ==
    /\ ~IsNaN(x) /\ ~IsNaN(y)
    /\ \/ x.den = 0
       \/ y.den # 0 /\ x.num * y.den >= y.num * x.den

JSLe(x, y) == JSGe(y, x)
JSLt(x, y) == ~IsNaN(x) /\ ~IsNaN(y) /\ ~JSGe(x, y)
JSGt(x, y) == JSLt(y, x)

---------------------------------------------------------------------------
(* JavaScript values.                                                      *)

Undefined == [t |-> "undefined"]
Null == [t |-> "null"]
Num(n) == [t |-> "number", n |-> n]
Bool(b) == [t |-> "boolean", b |-> b]
Str(s) == [t |-> "string", s |-> s]
Arr(items) == [t |-> "array", items |-> items]
Obj(f) == [t |-> "object", f |-> f]

IsArray(v) == v.t = "array"
\* obj !== null && typeof obj === 'object' && !Array.isArray(obj)
IsPlainObject(v) == v.t = "object"

RECURSIVE SetToSeq(_)
SetToSeq(S) ==
    IF S = {} THEN <<>>
    ELSE LET x == CHOOSE y \in S : TRUE IN <<x>> \o SetToSeq(S \ {x})

ObjectKeys(v) == DOMAIN v.f
ObjectValues(v) == LET ks == SetToSeq(DOMAIN v.f) IN [i \in 1..Len(ks) |-> v.f[ks[i]]]

\* !v: undefined, null, 0, false and '' are falsy
Falsy(v) ==
    \/ v.t \in {"undefined", "null"}
    \/ v.t = "number" /\ v.n = 0
    \/ v.t = "boolean" /\ v.b = FALSE
    \/ v.t = "string" /\ v.s = ""

---------------------------------------------------------------------------
(* index.ts: configuration.                                                *)

\* const DEFAULT_CONFIG: the literal's eligibility block
DEFAULT_CONFIG ==
    [minTabularPercent |-> Whole(60),
     maxNestedDepth |-> Whole(4),
     minUniformityScore |-> Frac(8, 10)]

---------------------------------------------------------------------------
(* index.ts: the structural analyzer.                                      *)

NoStats ==
    [totalArrays |-> 0, tabularArrays |-> 0, maxDepth |-> 0,
     uniformitySum |-> Whole(0), uniformityCount |-> 0]

Max(a, b) == IF a >= b THEN a ELSE b

\* isUniformObjectArray with its second test left out: every element an
\* object, whatever its keys
IsObjectArrayAnyKeys(arr) ==
    /\ Len(arr) # 0
    /\ \A i \in 1..Len(arr) : IsPlainObject(arr[i])

isUniformObjectArray(arr) ==
    /\ Len(arr) # 0
    /\ \A i \in 1..Len(arr) : IsPlainObject(arr[i])
    /\ LET firstKeys == ObjectKeys(arr[1])
       IN \A i \in 1..Len(arr) :
            /\ Cardinality(ObjectKeys(arr[i])) = Cardinality(firstKeys)
            /\ \A k \in ObjectKeys(arr[i]) : k \in firstKeys

calculateUniformity(arr) ==
    IF Len(arr) = 0 THEN Whole(1)
    ELSE LET referenceFields == ObjectKeys(arr[1])
             totalFields == Cardinality(referenceFields) * Len(arr)
             presentFields ==
                 Cardinality({<<i, field>> \in (1..Len(arr)) \X referenceFields :
                                 field \in ObjectKeys(arr[i])})
         IN JSDiv(Whole(presentFields), Whole(totalFields))

\* traverse taking the depth of arrays and objects only
VisitNodeContainersOnly(obj, depth) ==
    IF IsArray(obj)
    THEN IF Len(obj.items) > 0 /\ isUniformObjectArray(obj.items)
         THEN [totalArrays |-> 1, tabularArrays |-> 1, maxDepth |-> depth,
               uniformitySum |-> calculateUniformity(obj.items),
               uniformityCount |-> 1]
         ELSE [totalArrays |-> 1, tabularArrays |-> 0, maxDepth |-> depth,
               uniformitySum |-> Whole(0), uniformityCount |-> 0]
    ELSE IF IsPlainObject(obj) THEN [NoStats EXCEPT !.maxDepth = depth]
    ELSE NoStats

\* traverse without the length test: every() of an empty array is true
VisitNodeEmptyTabular(obj, depth) ==
    IF IsArray(obj)
    THEN IF \A i \in 1..Len(obj.items) : IsPlainObject(obj.items[i])
         THEN [totalArrays |-> 1, tabularArrays |-> 1, maxDepth |-> depth,
               uniformitySum |-> calculateUniformity(obj.items),
               uniformityCount |-> 1]
         ELSE [totalArrays |-> 1, tabularArrays |-> 0, maxDepth |-> depth,
               uniformitySum |-> Whole(0), uniformityCount |-> 0]
    ELSE [NoStats EXCEPT !.maxDepth = depth]

\* what one node adds to the counters before its children are visited
VisitNode(obj, depth) ==
    IF IsArray(obj)
    THEN IF Len(obj.items) > 0 /\ isUniformObjectArray(obj.items)
         THEN [totalArrays |-> 1, tabularArrays |-> 1, maxDepth |-> depth,
               uniformitySum |-> calculateUniformity(obj.items),
               uniformityCount |-> 1]
         ELSE [totalArrays |-> 1, tabularArrays |-> 0, maxDepth |-> depth,
               uniformitySum |-> Whole(0), uniformityCount |-> 0]
    ELSE [NoStats EXCEPT !.maxDepth = depth]

\* the counters after two successive parts of the traversal
Accumulate(s1, s2) ==
    [totalArrays |-> s1.totalArrays + s2.totalArrays,
     tabularArrays |-> s1.tabularArrays + s2.tabularArrays,
     maxDepth |-> Max(s1.maxDepth, s2.maxDepth),
     uniformitySum |-> JSAdd(s1.uniformitySum, s2.uniformitySum),
     uniformityCount |-> s1.uniformityCount + s2.uniformityCount]

Children(obj) ==
    IF IsArray(obj) THEN obj.items
    ELSE IF IsPlainObject(obj) THEN ObjectValues(obj)
    ELSE <<>>

RECURSIVE traverse(_, _)
RECURSIVE traverseEach(_, _)
traverse(obj, depth) ==
    Accumulate(VisitNode(obj, depth), traverseEach(Children(obj), depth + 1))

traverseEach(items, depth) ==
    IF items = <<>> THEN NoStats
    ELSE Accumulate(traverse(Head(items), depth), traverseEach(Tail(items), depth))

\* analyzeDataStructure returning the tabular share as a fraction of 1
AnalyzeDataStructureFraction(data) ==
    LET c == traverse(data, 0)
    IN [percentTabular |->
            IF c.totalArrays > 0
            THEN JSDiv(Whole(c.tabularArrays), Whole(c.totalArrays))
            ELSE Whole(0),
        nestedDepth |-> c.maxDepth,
        uniformityScore |->
            IF c.uniformityCount > 0
            THEN JSDiv(c.uniformitySum, Whole(c.uniformityCount))
            ELSE Whole(1)]

\* analyzeDataStructure scoring 0 where no array was scored
AnalyzeDataStructureUnscoredZero(data) ==
    LET c == traverse(data, 0)
    IN [percentTabular |->
            IF c.totalArrays > 0
            THEN JSMul(JSDiv(Whole(c.tabularArrays), Whole(c.totalArrays)), Whole(100))
            ELSE Whole(0),
        nestedDepth |-> c.maxDepth,
        uniformityScore |->
            IF c.uniformityCount > 0
            THEN JSDiv(c.uniformitySum, Whole(c.uniformityCount))
            ELSE Whole(0)]

analyzeDataStructure(data) ==
    LET c == traverse(data, 0)
    IN [percentTabular |->
            IF c.totalArrays > 0
            THEN JSMul(JSDiv(Whole(c.tabularArrays), Whole(c.totalArrays)), Whole(100))
            ELSE Whole(0),
        nestedDepth |-> c.maxDepth,
        uniformityScore |->
            IF c.uniformityCount > 0
            THEN JSDiv(c.uniformitySum, Whole(c.uniformityCount))
            ELSE Whole(1)]

---------------------------------------------------------------------------
(* Text: JSON.stringify, and the encoder of @toon-format/toon that          *)
(* encodeToTOON calls.  Texts are strings; a text is built line by line.   *)

RECURSIVE Join(_, _)
Join(strs, sep) ==
    IF strs = <<>> THEN ""
    ELSE IF Len(strs) = 1 THEN strs[1]
    ELSE strs[1] \o sep \o Join(Tail(strs), sep)

IsPrimitive(v) == v.t \in {"null", "number", "boolean", "string"}

RECURSIVE JSONStringify(_)
JSONStringify(v) ==
    CASE v.t = "null" -> "null"
      [] v.t = "number" -> ToString(v.n)
      [] v.t = "boolean" -> (IF v.b THEN "true" ELSE "false")
      [] v.t = "string" -> "\"" \o v.s \o "\""
      [] v.t = "array" ->
            "[" \o Join([i \in 1..Len(v.items) |-> JSONStringify(v.items[i])], ",") \o "]"
      [] v.t = "object" ->
            LET ks == SetToSeq(DOMAIN v.f)
            IN "{" \o Join([i \in 1..Len(ks) |->
                              "\"" \o ks[i] \o "\":" \o JSONStringify(v.f[ks[i]])], ",")
                   \o "}"

RECURSIVE Indent(_)
Indent(depth) == IF depth = 0 THEN "" ELSE "  " \o Indent(depth - 1)

\* a string is quoted when it is empty or reads as a literal
ToonPrimitive(v) ==
    CASE v.t = "null" -> "null"
      [] v.t = "number" -> ToString(v.n)
      [] v.t = "boolean" -> (IF v.b THEN "true" ELSE "false")
      [] v.t = "string" ->
            IF v.s \in {"", "true", "false", "null"} THEN "\"" \o v.s \o "\"" ELSE v.s

\* rows of a table: objects with the same non-empty key set and primitive values
ToonIsTabular(items) ==
    /\ Len(items) > 0
    /\ \A i \in 1..Len(items) :
         /\ items[i].t = "object"
         /\ DOMAIN items[i].f = DOMAIN items[1].f
         /\ DOMAIN items[i].f # {}
         /\ \A k \in DOMAIN items[i].f : IsPrimitive(items[i].f[k])

ToonAllPrimitive(items) == \A i \in 1..Len(items) : IsPrimitive(items[i])

RECURSIVE Flatten(_)
Flatten(seqs) == IF seqs = <<>> THEN <<>> ELSE Head(seqs) \o Flatten(Tail(seqs))

RECURSIVE ToonField(_, _, _)
RECURSIVE ToonArray(_, _, _)
RECURSIVE ToonItem(_, _)
\* the lines of an object's fields, at a depth
ToonObject(v, depth) ==
    LET ks == SetToSeq(DOMAIN v.f)
    IN Flatten([i \in 1..Len(ks) |-> ToonField(ks[i], v.f[ks[i]], depth)])

ToonField(key, v, depth) ==
    IF IsPrimitive(v) THEN <<Indent(depth) \o key \o ": " \o ToonPrimitive(v)>>
    ELSE IF v.t = "array" THEN ToonArray(key, v.items, depth)
    ELSE <<Indent(depth) \o key \o ":">> \o ToonObject(v, depth + 1)

ToonArray(key, items, depth) ==
    LET header == Indent(depth) \o key \o "[" \o ToString(Len(items)) \o "]"
    IN IF items = <<>> THEN <<header \o ":">>
       ELSE IF ToonAllPrimitive(items)
       THEN <<header \o ": "
                \o Join([i \in 1..Len(items) |-> ToonPrimitive(items[i])], ",")>>
       ELSE IF ToonIsTabular(items)
       THEN LET ks == SetToSeq(DOMAIN items[1].f)
            IN <<header \o "{" \o Join(ks, ",") \o "}:">>
               \o [i \in 1..Len(items) |->
                     Indent(depth + 1)
                     \o Join([j \in 1..Len(ks) |-> ToonPrimitive(items[i].f[ks[j]])], ",")]
       ELSE <<header \o ":">>
            \o Flatten([i \in 1..Len(items) |-> ToonItem(items[i], depth + 1)])

\* a list item: "- " and the item, an object's further fields one level in
ToonItem(v, depth) ==
    IF IsPrimitive(v) THEN <<Indent(depth) \o "- " \o ToonPrimitive(v)>>
    ELSE IF v.t = "array"
    THEN LET ls == ToonArray("", v.items, depth + 1)
         IN <<Indent(depth) \o "- " \o ToonArray("", v.items, 0)[1]>> \o Tail(ls)
    ELSE IF DOMAIN v.f = {} THEN <<Indent(depth) \o "-">>
    ELSE LET ks == SetToSeq(DOMAIN v.f)
             first == ToonField(ks[1], v.f[ks[1]], depth + 1)
         IN <<Indent(depth) \o "- " \o ToonField(ks[1], v.f[ks[1]], 0)[1]>>
            \o Tail(first)
            \o Flatten([i \in 1..(Len(ks) - 1) |->
                         ToonField(ks[i + 1], v.f[ks[i + 1]], depth + 1)])

toonEncode(v) ==
    IF IsPrimitive(v) THEN ToonPrimitive(v)
    ELSE IF v.t = "array" THEN Join(ToonArray("", v.items, 0), "\n")
    ELSE Join(ToonObject(v, 0), "\n")

encodeToTOON(data) == toonEncode(data)

---------------------------------------------------------------------------
(* index.ts: the cost estimator.                                           *)

\* Math.ceil(text.length / 4)
countTokens(text) == (Len(text) + 3) \div 4

\* calculateTokenSavings with its savings never below 0
CalculateTokenSavingsClamped(jsonData) ==
    LET jsonString == JSONStringify(jsonData)
        toonString == encodeToTOON(jsonData)
        original == countTokens(jsonString)
        toon == countTokens(toonString)
        savings == Max(original - toon, 0)
    IN [original |-> original, toon |-> toon, savings |-> savings,
        percentSaved |->
            IF original > 0
            THEN Frac(savings * 100, original)
            ELSE Whole(0)]

calculateTokenSavings(jsonData) ==
    LET jsonString == JSONStringify(jsonData)
        toonString == encodeToTOON(jsonData)
        original == countTokens(jsonString)
        toon == countTokens(toonString)
        savings == original - toon
    IN [original |-> original, toon |-> toon, savings |-> savings,
        percentSaved |->
            IF original > 0
            THEN Frac(savings * 100, original)
            ELSE Whole(0)]

---------------------------------------------------------------------------
(* index.ts: the eligibility decision.                                     *)

\* the reference of the module-level DEFAULT_CONFIG.eligibility object
DefaultRef == "DEFAULT_CONFIG"

\* Number.prototype.toFixed(2), as the number of hundredths
ToFixed2(x) ==
    IF x.den = 0 THEN x ELSE Whole((2 * 100 * x.num + x.den) \div (2 * x.den))

\* the thresholds analyzeEligibility reads: DEFAULT_CONFIG.eligibility, whatever
\* processor asks
Thresholds == elig[DefaultRef]

\* analyzeEligibility passing the data nested at least maxNestedDepth deep
AnalyzeEligibilityDepthAtLeast(eligibility, data) ==
    LET stats == analyzeDataStructure(data)
    IN [percentTabular |-> stats.percentTabular,
        nestedDepth |-> stats.nestedDepth,
        uniformityScore |-> stats.uniformityScore,
        shouldUseTOON |->
            /\ JSGe(stats.percentTabular, eligibility.minTabularPercent)
            /\ JSGe(Whole(stats.nestedDepth), eligibility.maxNestedDepth)
            /\ JSGe(stats.uniformityScore, eligibility.minUniformityScore),
        reason |-> <<>>]

\* the body of analyzeEligibility, DEFAULT_CONFIG.eligibility being `eligibility`
analyzeEligibilityWith(eligibility, data) ==
    LET stats == analyzeDataStructure(data)
        shouldUseTOON ==
            /\ JSGe(stats.percentTabular, eligibility.minTabularPercent)
            /\ JSLe(Whole(stats.nestedDepth), eligibility.maxNestedDepth)
            /\ JSGe(stats.uniformityScore, eligibility.minUniformityScore)
        tabularity ==
            IF JSGe(stats.percentTabular, Whole(80))
            THEN [clause |-> "highly tabular data (ideal for TOON)"]
            ELSE IF JSGe(stats.percentTabular, Whole(60))
            THEN [clause |-> "moderately tabular data (good fit for TOON)"]
            ELSE [clause |-> "only N% tabular (TOON less beneficial)",
                  N |-> stats.percentTabular]
        nesting ==
            IF JSGt(Whole(stats.nestedDepth), eligibility.maxNestedDepth)
            THEN <<[clause |-> "deep nesting (D levels)", D |-> stats.nestedDepth]>>
            ELSE <<>>
        uniformity ==
            IF JSLt(stats.uniformityScore, eligibility.minUniformityScore)
            THEN <<[clause |-> "low uniformity score (S)",
                    S |-> ToFixed2(stats.uniformityScore)]>>
            ELSE <<>>
    IN [percentTabular |-> stats.percentTabular,
        nestedDepth |-> stats.nestedDepth,
        uniformityScore |-> stats.uniformityScore,
        shouldUseTOON |-> shouldUseTOON,
        \* reasons.join('; '): the clauses in order
        reason |-> <<tabularity>> \o nesting \o uniformity]

analyzeEligibility(data) == analyzeEligibilityWith(Thresholds, data)

---------------------------------------------------------------------------
(* index.ts: pre-processing.  A request is a record of systemPrompt,       *)
(* userMessage and data; an absent data is Undefined.                      *)

NoData ==
    [percentTabular |-> Whole(0), nestedDepth |-> 0, uniformityScore |-> Whole(0),
     shouldUseTOON |-> FALSE, reason |-> <<[clause |-> "no data"]>>]

\* { ...request, toonProcessed: false }
Passthrough(request) ==
    [systemPrompt |-> request.systemPrompt, userMessage |-> request.userMessage,
     data |-> request.data, toonProcessed |-> FALSE]

\* the eligible request returned with its data not replaced
EncodedKeepingData(request, toonData, metrics) ==
    [systemPrompt |-> request.systemPrompt, userMessage |-> request.userMessage,
     data |-> request.data, toonProcessed |-> TRUE, metrics |-> metrics]

\* { ...request, data: toonData, toonProcessed: true, metrics }
Encoded(request, toonData, metrics) ==
    [systemPrompt |-> request.systemPrompt, userMessage |-> request.userMessage,
     data |-> Str(toonData), toonProcessed |-> TRUE, metrics |-> metrics]

\* the body of preProcessRequest, DEFAULT_CONFIG.eligibility being `thresholds`
preProcessRequestWith(thresholds, request) ==
    IF Falsy(request.data)
    THEN [request |-> Passthrough(request), eligibility |-> NoData]
    ELSE LET eligibility == analyzeEligibilityWith(thresholds, request.data)
         IN IF ~eligibility.shouldUseTOON
            THEN [request |-> Passthrough(request), eligibility |-> eligibility]
            ELSE [request |-> Encoded(request, encodeToTOON(request.data),
                                      calculateTokenSavings(request.data)),
                  eligibility |-> eligibility]

preProcessRequest(request) == preProcessRequestWith(Thresholds, request)

\* the method deciding by the thresholds this.config holds
PreProcessWithOwnConfig(thresholds, this, request) ==
    IF Falsy(request.data)
    THEN [request |-> Passthrough(request), eligibility |-> NoData]
    ELSE LET eligibility == analyzeEligibilityWith(elig[config[this]], request.data)
         IN IF ~eligibility.shouldUseTOON
            THEN [request |-> Passthrough(request), eligibility |-> eligibility]
            ELSE [request |-> Encoded(request, encodeToTOON(request.data),
                                      calculateTokenSavings(request.data)),
                  eligibility |-> eligibility]

\* the body of the method of processor `this`, which does not read
\* this.config, DEFAULT_CONFIG.eligibility being `thresholds`
TOONProcessor_preProcessWith(thresholds, this, request) ==
    IF Falsy(request.data)
    THEN [request |-> Passthrough(request), eligibility |-> NoData]
    ELSE LET eligibility == analyzeEligibilityWith(thresholds, request.data)
         IN IF ~eligibility.shouldUseTOON
            THEN [request |-> Passthrough(request), eligibility |-> eligibility]
            ELSE [request |-> Encoded(request, encodeToTOON(request.data),
                                      calculateTokenSavings(request.data)),
                  eligibility |-> eligibility]

TOONProcessor_preProcess(this, request) ==
    TOONProcessor_preProcessWith(Thresholds, this, request)

\* preProcess assigning its result to the request it was given
RequestEncodedInPlace(this, request) ==
    TOONProcessor_preProcess(this, request).request

\* the caller's request object once preProcess has returned: the method
\* builds its results by spreading and assigns nothing to the request or to
\* its data
RequestAfterPreProcess(this, request) == request

---------------------------------------------------------------------------
(* Response content is a sequence of characters; NBSP stands for U+00A0,   *)
(* which String.prototype.trim removes and JSON does not accept.           *)

NBSP == "NBSP"
Digits == {"0", "1", "2", "3", "4", "5", "6", "7", "8", "9"}
\* what trim() strips, among the characters used
TrimSpace == {" ", "\n", "\t", NBSP}
\* JSON white space
JSONSpace == {" ", "\n", "\t", "\r"}

RECURSIVE TrimStart(_)
TrimStart(s) == IF s # <<>> /\ Head(s) \in TrimSpace THEN TrimStart(Tail(s)) ELSE s

RECURSIVE TrimEnd(_)
TrimEnd(s) ==
    IF s # <<>> /\ s[Len(s)] \in TrimSpace THEN TrimEnd(SubSeq(s, 1, Len(s) - 1)) ELSE s

Trim(s) == TrimEnd(TrimStart(s))

\* /\[\d+\]/.test(text)
MatchesLengthMarker(text) ==
    \E i \in 1..Len(text) : \E j \in (i + 2)..Len(text) :
        /\ text[i] = "[" /\ text[j] = "]"
        /\ \A k \in (i + 1)..(j - 1) : text[k] \in Digits

\* /\{[^}]+\}/.test(text)
MatchesFieldList(text) ==
    \E i \in 1..Len(text) : \E j \in (i + 2)..Len(text) :
        /\ text[i] = "{" /\ text[j] = "}"
        /\ \A k \in (i + 1)..(j - 1) : text[k] # "}"

\* isTOONFormat with || for &&
IsTOONFormatEither(text) == MatchesLengthMarker(text) \/ MatchesFieldList(text)

isTOONFormat(text) == MatchesLengthMarker(text) /\ MatchesFieldList(text)

(* JSON.parse: a parse step yields [ok, pos, val], pos the next position.  *)
(* Numbers are digit runs, strings have no escapes.                        *)

ParseFail == [ok |-> FALSE, pos |-> 0, val |-> Undefined]
Parsed(v, p) == [ok |-> TRUE, pos |-> p, val |-> v]

RECURSIVE SkipSpace(_, _)
SkipSpace(s, i) == IF i <= Len(s) /\ s[i] \in JSONSpace THEN SkipSpace(s, i + 1) ELSE i

RECURSIVE DigitsEnd(_, _)
DigitsEnd(s, i) == IF i <= Len(s) /\ s[i] \in Digits THEN DigitsEnd(s, i + 1) ELSE i

RECURSIVE StringEnd(_, _)
\* the position of the closing quote of a string whose body starts at i, or 0
StringEnd(s, i) ==
    IF i > Len(s) \/ s[i] \in {"\\", "\n", "\t", "\r"} THEN 0
    ELSE IF s[i] = "\"" THEN i
    ELSE StringEnd(s, i + 1)

DigitValue(c) == CHOOSE n \in 0..9 : ToString(n) = c

RECURSIVE NumberValue(_)
NumberValue(ds) ==
    IF ds = <<>> THEN 0 ELSE 10 * NumberValue(SubSeq(ds, 1, Len(ds) - 1)) + DigitValue(ds[Len(ds)])

StartsWith(s, i, word) ==
    /\ i + Len(word) - 1 <= Len(s)
    /\ SubSeq(s, i, i + Len(word) - 1) = word

ParseString(s, i) ==
    LET e == StringEnd(s, i + 1)
    IN IF e = 0 THEN ParseFail ELSE Parsed(Join(SubSeq(s, i + 1, e - 1), ""), e + 1)

ParseNumber(s, i) ==
    LET e == IF s[i] = "0" THEN i + 1 ELSE DigitsEnd(s, i)
    IN Parsed(Num(NumberValue(SubSeq(s, i, e - 1))), e)

RECURSIVE ParseValue(_, _)
RECURSIVE ParseElements(_, _, _)
RECURSIVE ParseMembers(_, _, _)
\* a value starting at i (white space before it already skipped)
ParseValue(s, i) ==
    IF i > Len(s) THEN ParseFail
    ELSE IF s[i] = "[" THEN
        LET j == SkipSpace(s, i + 1)
        IN IF j <= Len(s) /\ s[j] = "]" THEN Parsed(Arr(<<>>), j + 1)
           ELSE ParseElements(s, j, <<>>)
    ELSE IF s[i] = "{" THEN
        LET j == SkipSpace(s, i + 1)
        IN IF j <= Len(s) /\ s[j] = "}" THEN Parsed(Obj(<<>>), j + 1)
           ELSE ParseMembers(s, j, <<>>)
    ELSE IF s[i] = "\"" THEN
        LET r == ParseString(s, i)
        IN IF r.ok THEN Parsed(Str(r.val), r.pos) ELSE ParseFail
    ELSE IF s[i] \in Digits THEN ParseNumber(s, i)
    ELSE IF StartsWith(s, i, <<"n", "u", "l", "l">>) THEN Parsed(Null, i + 4)
    ELSE IF StartsWith(s, i, <<"t", "r", "u", "e">>) THEN Parsed(Bool(TRUE), i + 4)
    ELSE IF StartsWith(s, i, <<"f", "a", "l", "s", "e">>) THEN Parsed(Bool(FALSE), i + 5)
    ELSE ParseFail

\* the elements of an array from i on, after those in acc
ParseElements(s, i, acc) ==
    LET r == ParseValue(s, i)
        j == SkipSpace(s, r.pos)
    IN IF ~r.ok \/ j > Len(s) THEN ParseFail
       ELSE IF s[j] = "]" THEN Parsed(Arr(Append(acc, r.val)), j + 1)
       ELSE IF s[j] = "," THEN ParseElements(s, SkipSpace(s, j + 1), Append(acc, r.val))
       ELSE ParseFail

\* the members of an object from i on, after those in acc; a repeated key
\* keeps its last value
ParseMembers(s, i, acc) ==
    IF i > Len(s) \/ s[i] # "\"" THEN ParseFail
    ELSE LET k == ParseString(s, i)
             c == SkipSpace(s, k.pos)
         IN IF ~k.ok \/ c > Len(s) \/ s[c] # ":" THEN ParseFail
            ELSE LET r == ParseValue(s, SkipSpace(s, c + 1))
                     j == SkipSpace(s, r.pos)
                     f == [x \in DOMAIN acc \cup {k.val} |->
                              IF x = k.val THEN r.val ELSE acc[x]]
                 IN IF ~r.ok \/ j > Len(s) THEN ParseFail
                    ELSE IF s[j] = "}" THEN Parsed(Obj(f), j + 1)
                    ELSE IF s[j] = "," THEN ParseMembers(s, SkipSpace(s, j + 1), f)
                    ELSE ParseFail

\* JSON.parse(text): ok = FALSE when it throws
JSONParse(text) ==
    LET r == ParseValue(text, SkipSpace(text, 1))
    IN IF r.ok /\ SkipSpace(text, r.pos) = Len(text) + 1 THEN r ELSE ParseFail

\* decode of @toon-format/toon, which decodeFromTOON calls: the response
\* carries whether the decoder accepts its trimmed content; the value
\* decoded is an object that stands for the decoding of that text
toonDecode(response, text) ==
    IF response.decodable
    THEN Parsed([t |-> "object", f |-> <<>>, decodedFrom |-> text], Len(text) + 1)
    ELSE ParseFail

decodeFromTOON(response, toonData) == toonDecode(response, toonData)

---------------------------------------------------------------------------
(* index.ts: post-processing.  An outcome is the value returned (ret),     *)
(* whether the call threw instead, and the parsers called, in order.       *)

Returns(ret, calls) == [ret |-> ret, threw |-> FALSE, calls |-> calls]
Throws(calls) == [ret |-> Undefined, threw |-> TRUE, calls |-> calls]

NotParsed == [success |-> FALSE, format |-> "none"]

\* postProcess without the catch around the decoder
PostProcessUncaught(this, response) ==
    IF response.content = <<>> THEN Returns(NotParsed, <<>>)
    ELSE LET trimmed == Trim(response.content)
         IN IF ~isTOONFormat(trimmed) THEN Returns(NotParsed, <<>>)
            ELSE LET d == decodeFromTOON(response, trimmed)
                 IN IF d.ok
                    THEN Returns([parsed |-> d.val, success |-> TRUE, format |-> "toon"],
                                 <<"decodeFromTOON">>)
                    ELSE Throws(<<"decodeFromTOON">>)

postProcessResponse(response) ==
    IF response.content = <<>> THEN Returns(NotParsed, <<>>)
    ELSE LET trimmed == Trim(response.content)
         IN IF ~isTOONFormat(trimmed) THEN Returns(NotParsed, <<>>)
            ELSE LET d == decodeFromTOON(response, trimmed)
                     j == JSONParse(response.content)
                 IN IF d.ok
                    THEN Returns([parsed |-> d.val, success |-> TRUE, format |-> "toon"],
                                 <<"decodeFromTOON">>)
                    ELSE IF j.ok
                    THEN Returns([parsed |-> j.val, success |-> TRUE, format |-> "json",
                                  error |-> "TOON decode failed, fell back to JSON"],
                                 <<"decodeFromTOON", "JSON.parse">>)
                    ELSE Returns([success |-> FALSE, format |-> "none",
                                  error |-> "Both formats failed"],
                                 <<"decodeFromTOON", "JSON.parse">>)

\* postProcess keeping its last result and answering with it when it has one
PostProcessCached(this, response) ==
    IF call.op = "postProcess" THEN call.out
    ELSE IF response.content = <<>> THEN Returns(NotParsed, <<>>)
    ELSE LET trimmed == Trim(response.content)
         IN IF ~isTOONFormat(trimmed) THEN Returns(NotParsed, <<>>)
            ELSE LET d == decodeFromTOON(response, trimmed)
                     j == JSONParse(response.content)
                 IN IF d.ok
                    THEN Returns([parsed |-> d.val, success |-> TRUE, format |-> "toon"],
                                 <<"decodeFromTOON">>)
                    ELSE IF j.ok
                    THEN Returns([parsed |-> j.val, success |-> TRUE, format |-> "json",
                                  error |-> "TOON decode failed, fell back to JSON"],
                                 <<"decodeFromTOON", "JSON.parse">>)
                    ELSE Returns([success |-> FALSE, format |-> "none",
                                  error |-> "Both formats failed"],
                                 <<"decodeFromTOON", "JSON.parse">>)

TOONProcessor_postProcess(this, response) ==
    IF response.content = <<>> THEN Returns(NotParsed, <<>>)
    ELSE LET trimmed == Trim(response.content)
         IN IF ~isTOONFormat(trimmed) THEN Returns(NotParsed, <<>>)
            ELSE LET d == decodeFromTOON(response, trimmed)
                     j == JSONParse(response.content)
                 IN IF d.ok
                    THEN Returns([parsed |-> d.val, success |-> TRUE, format |-> "toon"],
                                 <<"decodeFromTOON">>)
                    ELSE IF j.ok
                    THEN Returns([parsed |-> j.val, success |-> TRUE, format |-> "json",
                                  error |-> "TOON decode failed, fell back to JSON"],
                                 <<"decodeFromTOON", "JSON.parse">>)
                    ELSE Returns([success |-> FALSE, format |-> "none",
                                  error |-> "Both formats failed"],
                                 <<"decodeFromTOON", "JSON.parse">>)

---------------------------------------------------------------------------
(* The values, requests and responses the calls are made with.             *)

Keys == {"a", "b"}

EmptyObject == [k \in {} |-> Undefined]
EmptyArray == Arr(<<>>)

\* {key: v}
Wrap(key, v) == Obj([k \in {key} |-> v])

RECURSIVE WrapN(_, _)
\* v inside n single-key objects
WrapN(n, v) == IF n = 0 THEN v ELSE Wrap("a", WrapN(n - 1, v))

Scalars == {Null, Num(0), Num(1), Bool(FALSE), Bool(TRUE), Str(""), Str("value")}

\* objects over the keys, each field a number or an empty array
Rows == {Obj(f) : f \in UNION {[ks -> {Num(1), EmptyArray}] : ks \in SUBSET Keys}}

Elements == Rows \cup {Null, Num(1), EmptyArray}

ArraysUpTo(n) == {Arr(items) : items \in UNION {[1..m -> Elements] : m \in 0..n}}

Arrays == ArraysUpTo(MaxLen)

Seeds == Scalars \cup ArraysUpTo(1)

\* the README's example, and the nested example of the tests
ScenarioA ==
    Wrap("users",
         Arr(<<Obj([k \in {"id", "name", "role"} |->
                      CASE k = "id" -> Num(1) [] k = "name" -> Str("Alice")
                        [] k = "role" -> Str("admin")]),
               Obj([k \in {"id", "name", "role"} |->
                      CASE k = "id" -> Num(2) [] k = "name" -> Str("Bob")
                        [] k = "role" -> Str("user")])>>))

ScenarioB ==
    Wrap("level1", Wrap("level2", Wrap("level3", Wrap("level4",
        Wrap("deep", Str("value"))))))

Values ==
    Scalars \cup Arrays \cup {Wrap("a", v) : v \in Arrays}
    \cup {WrapN(n, v) : n \in 1..MaxWrap, v \in Seeds}
    \cup {Obj([k \in Keys |-> IF k = "a" THEN x ELSE y]) :
              x \in ArraysUpTo(1), y \in ArraysUpTo(1)}
    \cup {ScenarioA, ScenarioB}

Request(systemPrompt, data) ==
    [systemPrompt |-> systemPrompt, userMessage |-> "Analyze this data.", data |-> data]

Prompts == {"", "You are a data analyst."}

\* the requests of the pure-call specification: data of every shape
Requests ==
    {Request("You are a data analyst.", d) : d \in Values \cup {Undefined}}
    \cup {[systemPrompt |-> "", userMessage |-> "", data |-> d] :
              d \in {ScenarioA, ScenarioB}}

\* the requests made of the processors of the state machine
MachineRequests ==
    {Request(sp, d) :
        sp \in Prompts,
        d \in {Undefined, Null, Num(0), Str("value"), ScenarioA, ScenarioB,
               Arr(<<Wrap("a", Num(1))>>), Arr(<<Wrap("a", EmptyArray)>>),
               WrapN(3, Arr(<<Wrap("a", Num(1))>>))}}

\* the pieces response contents are made of
Tokens ==
    {<<"[", "1", "]">>, <<"{", "a", "}">>,
     <<"{", "\"", "a", "\"", ":", "[", "1", "]", "}">>,
     <<" ">>, <<NBSP>>, <<"x">>, <<"[">>, <<"{", "}">>, <<"}">>}

RECURSIVE TextsUpTo(_)
TextsUpTo(n) ==
    IF n = 0 THEN {<<>>}
    ELSE LET shorter == TextsUpTo(n - 1)
         IN shorter \cup {t \o tok : t \in shorter, tok \in Tokens}

Contents == TextsUpTo(MaxTokens)

Responses == [content : Contents, decodable : BOOLEAN]

MachineResponses ==
    [content : {<<>>, <<"x">>, <<"[", "1", "]", "{", "a", "}">>,
                <<"{", "\"", "a", "\"", ":", "[", "1", "]", "}">>},
     decodable : BOOLEAN]

---------------------------------------------------------------------------
(* Configurations.  A Partial<TOONConfig> is an object with or without an  *)
(* eligibility key; a TOONHookConfig has its absent keys Undefined.        *)

EligibilityBlocks ==
    [minTabularPercent : {Whole(0), Whole(70)},
     maxNestedDepth : {Whole(1), Whole(6)},
     minUniformityScore : {Frac(9, 10)}]

PartialConfigs == {EmptyObject} \cup {[eligibility |-> b] : b \in EligibilityBlocks}

HookConfigs ==
    [minTabularPercent : {Undefined, Whole(0), Whole(70)},
     maxNestedDepth : {Undefined, Whole(3)}]

Procs == {"p1", "p2"}

\* the process calls, by the order they are made in
CallIds == 1..MaxCalls

\* no process call made yet
NoFlights == [id \in CallIds |-> [pc |-> "idle"]]

\* const DEFAULT_HOOK_CONFIG
DEFAULT_HOOK_CONFIG == [minTabularPercent |-> Whole(60), maxNestedDepth |-> Whole(4)]

\* x || d for a number or an absent x
OrElse(x, d) == IF x = Undefined \/ x = Whole(0) \/ IsNaN(x) THEN d ELSE x

\* the eligibility block the AutoTOON constructor builds from its config
AutoEligibility(hook) ==
    LET merged == [k \in DOMAIN DEFAULT_HOOK_CONFIG |->
                      IF hook[k] = Undefined THEN DEFAULT_HOOK_CONFIG[k] ELSE hook[k]]
    IN [minTabularPercent |-> OrElse(merged.minTabularPercent, Whole(60)),
        maxNestedDepth |-> OrElse(merged.maxNestedDepth, Whole(4)),
        minUniformityScore |-> Frac(8, 10)]

---------------------------------------------------------------------------
(* The processors.  config[p] is the reference in p's config.eligibility:  *)
(* DefaultRef while the spread of DEFAULT_CONFIG is not overridden, else   *)
(* the object the caller passed, held under p's own reference.             *)

\* the heap with the objects no processor refers to dropped
Live(heap, cfg) ==
    [r \in {DefaultRef} \cup {cfg[p] : p \in Procs} |-> heap[r]]

\* processor p's config after { ...base, ...c }, base's eligibility at baseRef
Spread(p, baseRef, c) ==
    IF "eligibility" \in DOMAIN c
    THEN /\ config' = [config EXCEPT ![p] = p]
         /\ elig' = Live([r \in DOMAIN elig \cup {p} |->
                             IF r = p THEN c.eligibility ELSE elig[r]], config')
    ELSE /\ config' = [config EXCEPT ![p] = baseRef]
         /\ elig' = Live(elig, config')

\* p = new TOONProcessor(c)
NewTOONProcessor(p, c) ==
    /\ Spread(p, DefaultRef, c)
    /\ call' = [op |-> "new TOONProcessor", this |-> p, arg |-> c]
    /\ UNCHANGED flight

\* p = the processor of new AutoTOON(hook)
NewAutoTOON(p, hook) ==
    /\ Spread(p, DefaultRef, [eligibility |-> AutoEligibility(hook)])
    /\ call' = [op |-> "new AutoTOON", this |-> p, arg |-> hook]
    /\ UNCHANGED flight

\* p.getConfig(): this.config, its eligibility read off the heap
TOONProcessor_getConfig(this) == [eligibility |-> elig[config[this]]]

\* updateConfig spreading in the other order, { ...config, ...this.config }
UpdateConfigKeepingOld(p, c) ==
    /\ UNCHANGED <<elig, config, flight>>
    /\ call' = [op |-> "updateConfig", this |-> p, arg |-> c]

\* p.updateConfig(c)
UpdateConfig(p, c) ==
    /\ Spread(p, config[p], c)
    /\ call' = [op |-> "updateConfig", this |-> p, arg |-> c]
    /\ UNCHANGED flight

\* p.preProcess(request)
PreProcess(p, request) ==
    /\ call' = [op |-> "preProcess", this |-> p, arg |-> request,
                ret |-> TOONProcessor_preProcess(p, request)]
    /\ UNCHANGED <<elig, config, flight>>

\* p.postProcess(response)
PostProcess(p, response) ==
    /\ call' = [op |-> "postProcess", this |-> p, arg |-> response,
                out |-> TOONProcessor_postProcess(p, response)]
    /\ UNCHANGED <<elig, config, flight>>

Init ==
    /\ elig = [r \in {DefaultRef} |-> DEFAULT_CONFIG]
    /\ config = [p \in Procs |-> DefaultRef]
    /\ call = [op |-> "none"]
    /\ flight = NoFlights

Next ==
    \/ \E p \in Procs, c \in PartialConfigs : NewTOONProcessor(p, c)
    \/ \E p \in Procs, h \in HookConfigs : NewAutoTOON(p, h)
    \/ \E p \in Procs, c \in PartialConfigs : UpdateConfig(p, c)
    \/ \E p \in Procs, r \in MachineRequests : PreProcess(p, r)
    \/ \E p \in Procs, r \in MachineResponses : PostProcess(p, r)

Spec == Init /\ [][Next]_vars

---------------------------------------------------------------------------
(* The processors with their callers writing to what getConfig() returns.  *)
(* getConfig returns this.config itself, and TOONConfig has no readonly    *)
(* field.                                                                  *)

\* the fields written and the values they are given
FieldWrites == {<<"minTabularPercent", Whole(0)>>, <<"maxNestedDepth", Whole(1)>>}

\* p.getConfig().eligibility[field] = value: a write to the object that
\* this.config.eligibility refers to
SetEligibilityField(p, field, value) ==
    /\ elig' = [elig EXCEPT ![config[p]][field] = value]
    /\ call' = [op |-> "set eligibility field", this |-> p,
                arg |-> <<field, value>>]
    /\ UNCHANGED <<config, flight>>

\* p.getConfig().eligibility = block: a write to p's own config object
SetEligibility(p, block) ==
    /\ Spread(p, config[p], [eligibility |-> block])
    /\ call' = [op |-> "set eligibility", this |-> p, arg |-> block]
    /\ UNCHANGED flight

\* analyzeEligibility(data), the free function
AnalyzeEligibility(data) ==
    /\ call' = [op |-> "analyzeEligibility", arg |-> data,
                ret |-> analyzeEligibility(data)]
    /\ UNCHANGED <<elig, config, flight>>

\* the data the free function is called on
MachineData == {Str("value"), ScenarioA, ScenarioB}

NextShared ==
    \/ \E p \in Procs, c \in PartialConfigs : NewTOONProcessor(p, c)
    \/ \E p \in Procs, c \in PartialConfigs : UpdateConfig(p, c)
    \/ \E p \in Procs, w \in FieldWrites : SetEligibilityField(p, w[1], w[2])
    \/ \E p \in Procs, b \in EligibilityBlocks : SetEligibility(p, b)
    \/ \E p \in Procs, r \in MachineRequests : PreProcess(p, r)
    \/ \E d \in MachineData : AnalyzeEligibility(d)

SpecShared == Init /\ [][NextShared]_vars

---------------------------------------------------------------------------
(* Single calls on a processor, over data and contents of every shape.     *)

\* the processor called is constructed with no config or with the
\* configuration of the test 'updates configuration'
InitProcessor ==
    /\ flight = NoFlights
    /\ config \in {[p \in Procs |-> DefaultRef],
                   [p \in Procs |-> IF p = "p1" THEN p ELSE DefaultRef]}
    /\ elig = [r \in {DefaultRef} \cup {config[p] : p \in Procs} |->
                  IF r = DefaultRef THEN DEFAULT_CONFIG
                  ELSE [minTabularPercent |-> Whole(70), maxNestedDepth |-> Whole(1),
                        minUniformityScore |-> Frac(9, 10)]]

InitAnalysis ==
    /\ InitProcessor
    /\ call \in {[op |-> "pending", arg |-> r] : r \in Requests}

\* p1.preProcess(request)
CallPreProcess ==
    /\ call.op = "pending"
    /\ call' = [op |-> "preProcess", this |-> "p1",
                arg |-> RequestAfterPreProcess("p1", call.arg),
                ret |-> TOONProcessor_preProcess("p1", call.arg)]
    /\ UNCHANGED <<elig, config, flight>>

\* analyzeEligibility(request.data); counters are analyzeDataStructure's
\* when traverse has returned
CallAnalyzeEligibility ==
    /\ call.op = "pending"
    /\ call' = [op |-> "analyzeEligibility", arg |-> call.arg.data,
                ret |-> analyzeEligibility(call.arg.data),
                counters |-> traverse(call.arg.data, 0)]
    /\ UNCHANGED <<elig, config, flight>>

\* calculateTokenSavings(request.data); JSON.stringify(undefined) is undefined,
\* whose length countTokens cannot read
CallCalculateTokenSavings ==
    /\ call.op = "pending"
    /\ call' = IF call.arg.data = Undefined
               THEN [op |-> "calculateTokenSavings", arg |-> call.arg.data,
                     threw |-> TRUE]
               ELSE [op |-> "calculateTokenSavings", arg |-> call.arg.data,
                     threw |-> FALSE, ret |-> calculateTokenSavings(call.arg.data)]
    /\ UNCHANGED <<elig, config, flight>>

NextAnalysis == CallPreProcess \/ CallAnalyzeEligibility \/ CallCalculateTokenSavings

SpecAnalysis == InitAnalysis /\ [][NextAnalysis]_vars

---------------------------------------------------------------------------
(* analyzeEligibility under thresholds of every kind: the fields of        *)
(* DEFAULT_CONFIG.eligibility hold whatever was last written to them.      *)

ThresholdGrid ==
    [minTabularPercent : {Whole(0), Whole(50), Whole(60), Whole(100)},
     maxNestedDepth : {Whole(0), Whole(1), Whole(4), Whole(5)},
     minUniformityScore : {Whole(0), Frac(8, 10), Whole(1)}]

DecideData ==
    Seeds \cup {WrapN(n, v) : n \in {1, 4, 5}, v \in ArraysUpTo(1)}
    \cup {Obj([k \in Keys |-> IF k = "a" THEN x ELSE y]) :
              x \in {EmptyArray, Arr(<<Wrap("a", Num(1))>>)},
              y \in {EmptyArray, Arr(<<Wrap("a", Num(1))>>), Arr(<<Obj(EmptyObject)>>)}}
    \cup {ScenarioA, ScenarioB}

InitDecide ==
    /\ config = [p \in Procs |-> DefaultRef]
    /\ flight = NoFlights
    /\ elig \in {[r \in {DefaultRef} |-> t] : t \in ThresholdGrid}
    /\ call \in {[op |-> "pending", arg |-> Request("", d)] : d \in DecideData}

NextDecide == CallAnalyzeEligibility

SpecDecide == InitDecide /\ [][NextDecide]_vars

InitResponse ==
    /\ InitProcessor
    /\ call \in {[op |-> "pending", arg |-> r] : r \in Responses}

\* p1.postProcess(response)
CallPostProcess ==
    /\ call.op = "pending"
    /\ call' = [op |-> "postProcess", this |-> "p1", arg |-> call.arg,
                out |-> TOONProcessor_postProcess("p1", call.arg)]
    /\ UNCHANGED <<elig, config, flight>>

NextResponse == CallPostProcess

SpecResponse == InitResponse /\ [][NextResponse]_vars

---------------------------------------------------------------------------
(* hooks.ts: AutoTOON.process.  A call runs to its await of llmCall in one *)
(* step, is suspended while the promise is pending, and runs from the      *)
(* await to its end in one step once the promise has settled.  The config  *)
(* of an AutoTOON is private and set in its constructor only.              *)

\* the text addTOONInstructions puts after the prompt; the three backquotes
\* of its code fence, which a TLA+ string cannot hold, are written ~~~
TOONInstructions ==
    "\n\n## Data Format\n\nStructured data uses TOON (Token-Oriented Object Notation):\n"
    \o "~~~toon\narrayName[N]{field1,field2}:\n  value1,value2\n  value3,value4\n~~~\n\n"
    \o "- [N] indicates array length\n- Values are comma-separated\n"
    \o "- Use TOON format for structured responses to save tokens.\n"

addTOONInstructions(prompt) == prompt \o TOONInstructions

\* this.config of the AutoTOON owning processor p: p1's is the global
\* autoTOON, p2's was built with { addInstructions: false }
AutoConfig(p) == [addInstructions |-> (p = "p1"), logMetrics |-> TRUE]

\* steps 2 and 3 of process were toonRequest the caller's request object
\* itself and not a copy of it: the assignment of step 2 lands on the request
ProcessSendInPlace(p, request, pre) ==
    LET toonRequest ==
            IF AutoConfig(p).addInstructions /\ pre.request.toonProcessed
            THEN [pre.request EXCEPT !.systemPrompt = addTOONInstructions(@)]
            ELSE pre.request
    IN [pc |-> "awaiting", this |-> p,
        request |-> [request EXCEPT !.systemPrompt = toonRequest.systemPrompt],
        toonRequest |-> toonRequest, eligibility |-> pre.eligibility,
        events |-> <<"preProcess", "llmCall">>, llmArg |-> toonRequest,
        llmPromise |-> "pending", llmResponse |-> Undefined, result |-> Undefined]

\* steps 2 and 3 of process, pre being what step 1 destructured
ProcessSend(p, request, pre) ==
    LET toonRequest ==
            IF AutoConfig(p).addInstructions /\ pre.request.toonProcessed
            THEN [pre.request EXCEPT !.systemPrompt = addTOONInstructions(@)]
            ELSE pre.request
    IN [pc |-> "awaiting", this |-> p, request |-> request,
        toonRequest |-> toonRequest, eligibility |-> pre.eligibility,
        events |-> <<"preProcess", "llmCall">>, llmArg |-> toonRequest,
        llmPromise |-> "pending", llmResponse |-> Undefined, result |-> Undefined]

\* process from its entry to the await: steps 1 to 3, llmCall invoked
ProcessBegin(p, request) ==
    ProcessSend(p, request, TOONProcessor_preProcess(p, request))

\* postResult.parsed || llmResponse.content
ParsedOrContent(postResult, llmResponse) ==
    IF "parsed" \in DOMAIN postResult /\ ~Falsy(postResult.parsed)
    THEN postResult.parsed
    ELSE llmResponse.content

\* toonRequest.metrics?.savings || 0
SavingsOrZero(toonRequest) ==
    IF "metrics" \in DOMAIN toonRequest /\ toonRequest.metrics.savings # 0
    THEN toonRequest.metrics.savings
    ELSE 0

\* the call c having run postProcess and returned result
ProcessReturned(c, result) ==
    [c EXCEPT !.pc = "returned", !.events = @ \o <<"postProcess">>, !.result = result]

\* process catching the rejection of llmCall and post-processing no content
ProcessContinueCatching(c) ==
    LET llmResponse == IF c.pc = "failed" THEN [content |-> <<>>, decodable |-> FALSE]
                       ELSE c.llmResponse
        post == TOONProcessor_postProcess(c.this, llmResponse)
    IN ProcessReturned(c,
                     [originalRequest |-> c.request,
                      toonRequest |-> c.toonRequest,
                      eligibility |-> c.eligibility,
                      metrics |-> IF "metrics" \in DOMAIN c.toonRequest
                                  THEN c.toonRequest.metrics ELSE Undefined,
                      llmResponse |-> llmResponse,
                      parsedResponse |-> ParsedOrContent(post.ret, llmResponse),
                      tokenSavings |-> SavingsOrZero(c.toonRequest)])

\* process keeping toonRequest and eligibility in fields of the instance: the
\* continuation reads those of the call begun last on it
ProcessContinueSharedFields(c) ==
    IF c.pc = "failed" THEN [c EXCEPT !.pc = "rejected"]
    ELSE LET last == CHOOSE i \in CallIds :
                        /\ flight[i].pc # "idle" /\ flight[i].this = c.this
                        /\ \A j \in CallIds :
                              (flight[j].pc # "idle" /\ flight[j].this = c.this) => j <= i
             post == TOONProcessor_postProcess(c.this, c.llmResponse)
         IN ProcessReturned(c,
                          [originalRequest |-> c.request,
                           toonRequest |-> flight[last].toonRequest,
                           eligibility |-> flight[last].eligibility,
                           metrics |-> IF "metrics" \in DOMAIN flight[last].toonRequest
                                       THEN flight[last].toonRequest.metrics
                                       ELSE Undefined,
                           llmResponse |-> c.llmResponse,
                           parsedResponse |-> ParsedOrContent(post.ret, c.llmResponse),
                           tokenSavings |-> SavingsOrZero(flight[last].toonRequest)])

\* process from the await to its end: the rejection of llmCall is the
\* rejection of process; else step 4 and the result
ProcessContinue(c) ==
    IF c.pc = "failed" THEN [c EXCEPT !.pc = "rejected"]
    ELSE LET post == TOONProcessor_postProcess(c.this, c.llmResponse)
         IN IF post.threw THEN [c EXCEPT !.pc = "rejected",
                                         !.events = @ \o <<"postProcess">>]
            ELSE ProcessReturned(c,
                               [originalRequest |-> c.request,
                                toonRequest |-> c.toonRequest,
                                eligibility |-> c.eligibility,
                                metrics |-> IF "metrics" \in DOMAIN c.toonRequest
                                            THEN c.toonRequest.metrics ELSE Undefined,
                                llmResponse |-> c.llmResponse,
                                parsedResponse |-> ParsedOrContent(post.ret, c.llmResponse),
                                tokenSavings |-> SavingsOrZero(c.toonRequest)])

\* the requests process is called with, and what llmCall resolves with
ProcessRequests == {Request("You are a data analyst.", d) : d \in {ScenarioA, ScenarioB}}

ProcessResponses ==
    {[content |-> <<"x">>, decodable |-> FALSE],
     [content |-> <<"[", "1", "]", "{", "a", "}">>, decodable |-> TRUE],
     [content |-> <<"{", "\"", "a", "\"", ":", "[", "1", "]", "}">>, decodable |-> FALSE]}

\* the call id is made on p's AutoTOON: process(request, llmCall) runs to the await
ProcessCalled(id, p, request) ==
    /\ flight[id].pc = "idle"
    /\ \A j \in CallIds : j < id => flight[j].pc # "idle"
    /\ flight' = [flight EXCEPT ![id] = ProcessBegin(p, request)]
    /\ UNCHANGED <<elig, config, call>>

\* the promise llmCall returned to call id is fulfilled
LLMResolves(id, response) ==
    /\ flight[id].pc = "awaiting"
    /\ flight' = [flight EXCEPT ![id].pc = "resolved",
                                ![id].llmPromise = "fulfilled",
                                ![id].llmResponse = response]
    /\ UNCHANGED <<elig, config, call>>

\* the promise llmCall returned to call id is rejected
LLMRejects(id) ==
    /\ flight[id].pc = "awaiting"
    /\ flight' = [flight EXCEPT ![id].pc = "failed", ![id].llmPromise = "rejected"]
    /\ UNCHANGED <<elig, config, call>>

\* call id runs on from its await
ProcessResumes(id) ==
    /\ flight[id].pc \in {"resolved", "failed"}
    /\ flight' = [flight EXCEPT ![id] = ProcessContinue(@)]
    /\ UNCHANGED <<elig, config, call>>

\* p1 and p2 are the processors of two AutoTOONs built with no thresholds
InitProcess ==
    /\ config = [p \in Procs |-> p]
    /\ elig = [r \in {DefaultRef} \cup Procs |->
                  IF r = DefaultRef THEN DEFAULT_CONFIG
                  ELSE AutoEligibility([minTabularPercent |-> Undefined,
                                        maxNestedDepth |-> Undefined])]
    /\ call = [op |-> "none"]
    /\ flight = NoFlights

NextProcess ==
    \/ \E id \in CallIds, p \in Procs, r \in ProcessRequests : ProcessCalled(id, p, r)
    \/ \E id \in CallIds, r \in ProcessResponses : LLMResolves(id, r)
    \/ \E id \in CallIds : LLMRejects(id)
    \/ \E id \in CallIds : ProcessResumes(id)

SpecProcess == InitProcess /\ [][NextProcess]_vars

---------------------------------------------------------------------------
(* What the claims speak of, computed from the data alone.                 *)

PreProcessed == call.op = "preProcess"
Analyzed == call.op = "analyzeEligibility"
PostProcessed == call.op = "postProcess"

RECURSIVE ArrayNodes(_)
RECURSIVE ArrayNodesOfAll(_)
\* the arrays of a tree (their element sequences), each once per occurrence
ArrayNodes(v) ==
    IF v.t = "array" THEN <<v.items>> \o ArrayNodesOfAll(v.items)
    ELSE IF v.t = "object" THEN ArrayNodesOfAll(ObjectValues(v))
    ELSE <<>>

ArrayNodesOfAll(vs) ==
    IF vs = <<>> THEN <<>> ELSE ArrayNodes(Head(vs)) \o ArrayNodesOfAll(Tail(vs))

RECURSIVE Height(_)
RECURSIVE HeightOfAll(_)
\* the number of steps from a node down to its deepest descendant
Height(v) ==
    IF v.t \in {"array", "object"} /\ Children(v) # <<>>
    THEN 1 + HeightOfAll(Children(v))
    ELSE 0

HeightOfAll(vs) ==
    IF vs = <<>> THEN 0 ELSE Max(Height(Head(vs)), HeightOfAll(Tail(vs)))

\* non-empty, every element a non-null, non-array object
CandidateTabular(items) ==
    items # <<>> /\ \A i \in 1..Len(items) : items[i].t = "object"

SameKeySets(items) == \A i \in 1..Len(items) : DOMAIN items[i].f = DOMAIN items[1].f

\* presentFieldCount / (|keys of first element| * elementCount)
PresenceRatio(items) ==
    LET present == {<<i, k>> \in (1..Len(items)) \X (DOMAIN items[1].f) :
                       k \in DOMAIN items[i].f}
    IN JSDiv(Whole(Cardinality(present)),
             Whole(Cardinality(DOMAIN items[1].f) * Len(items)))

RECURSIVE SumOfRatios(_)
\* the sum of the presence ratios of some arrays
SumOfRatios(nodes) ==
    IF nodes = <<>> THEN Whole(0)
    ELSE JSAdd(PresenceRatio(Head(nodes)), SumOfRatios(Tail(nodes)))

\* the three thresholds of a configuration applied to a report
Decide(report, c) ==
    /\ JSGe(report.percentTabular, c.minTabularPercent)
    /\ JSLe(Whole(report.nestedDepth), c.maxNestedDepth)
    /\ JSGe(report.uniformityScore, c.minUniformityScore)

PassesSniff(content) ==
    /\ content # <<>>
    /\ MatchesLengthMarker(Trim(content))
    /\ MatchesFieldList(Trim(content))

---------------------------------------------------------------------------
(* Claims.                                                                 *)

\* C1: a processor's preProcess on non-null data decides shouldUseTOON by the
\* three thresholds of the processor's current Config (from its constructor,
\* the AutoTOON constructor or the latest updateConfig).
C1_ConfigGovernsDecision ==
    (PreProcessed /\ call.arg.data \notin {Undefined, Null}) =>
        call.ret.eligibility.shouldUseTOON
            = Decide(call.ret.eligibility, elig[config[call.this]])

\* C2: postProcess calls the decoder only for non-empty content whose trimmed
\* text matches both patterns, returns {success:false, format:'none'} with no
\* parser called otherwise, calls JSON.parse only after a failed decode, and
\* calls each parser at most once.
C2_SinglePassOrder ==
    PostProcessed =>
        LET o == call.out
            content == call.arg.content
        IN /\ o.calls \in {<<>>, <<"decodeFromTOON">>, <<"decodeFromTOON", "JSON.parse">>}
           /\ o.calls # <<>> <=> PassesSniff(content)
           /\ ~PassesSniff(content) => (~o.threw /\ o.ret = NotParsed)
           /\ Len(o.calls) = 2 <=> (PassesSniff(content) /\ ~call.arg.decodable)

C2_Witness_OnePatternOnly ==
    /\ PostProcessed
    /\ MatchesLengthMarker(Trim(call.arg.content))
    /\ ~MatchesFieldList(Trim(call.arg.content))
    /\ JSONParse(call.arg.content).ok
    /\ call.out.calls = <<>>

\* C3: for content that passes the sniff postProcess does not throw, and its
\* result is: the decoded value as 'toon' with no error field when the decode
\* succeeds; the JSON.parse of the untrimmed content as 'json' with the
\* fallback notice when only that succeeds; the 'Both formats failed' failure
\* with no parsed field when neither does.
C3_ResultByParseOutcomes ==
    (PostProcessed /\ PassesSniff(call.arg.content)) =>
        LET o == call.out
            d == toonDecode(call.arg, Trim(call.arg.content))
            j == JSONParse(call.arg.content)
        IN /\ ~o.threw
           /\ d.ok => o.ret = [parsed |-> d.val, success |-> TRUE, format |-> "toon"]
           /\ (~d.ok /\ j.ok) =>
                 o.ret = [parsed |-> j.val, success |-> TRUE, format |-> "json",
                          error |-> "TOON decode failed, fell back to JSON"]
           /\ (~d.ok /\ ~j.ok) =>
                 o.ret = [success |-> FALSE, format |-> "none",
                          error |-> "Both formats failed"]

C3_Witness_FellBackToJSON ==
    /\ PostProcessed
    /\ PassesSniff(call.arg.content)
    /\ ~call.arg.decodable
    /\ call.out.ret.format = "json"
    /\ call.out.ret.parsed = Wrap("a", Arr(<<Num(1)>>))

\* C4: for non-null data, toonProcessed equals eligibility.shouldUseTOON; when
\* true the returned data is the string encodeToTOON(data) and metrics is
\* calculateTokenSavings(data); when false the data is returned as it was and
\* there is no metrics field.
C4_ProcessedIffEligible ==
    (PreProcessed /\ call.arg.data \notin {Undefined, Null}) =>
        LET r == call.ret.request
            data == call.arg.data
        IN /\ r.toonProcessed = call.ret.eligibility.shouldUseTOON
           /\ r.toonProcessed =>
                 /\ r.data = Str(toonEncode(data))
                 /\ "metrics" \in DOMAIN r
                 /\ r.metrics = calculateTokenSavings(data)
           /\ ~r.toonProcessed => (r.data = data /\ "metrics" \notin DOMAIN r)

C4_Witness_Encoded ==
    /\ PreProcessed
    /\ call.ret.request.toonProcessed
    /\ call.arg.data = ScenarioA
    /\ call.ret.request.metrics.savings > 0

\* C5: preProcess returns the 'no data' report, unprocessed, exactly when
\* request.data is absent or null; for any other data (0, false and '' too)
\* the report is that of the analyzer and decider on the data.
C5_NoDataOnlyForNull ==
    PreProcessed =>
        IF call.arg.data \in {Undefined, Null}
        THEN call.ret.eligibility = NoData /\ ~call.ret.request.toonProcessed
        ELSE call.ret.eligibility = analyzeEligibility(call.arg.data)

\* a root object with one key holding N >= 1 objects that share one non-empty
\* set of scalar-valued keys
IsSingleKeyTable(v) ==
    /\ v.t = "object"
    /\ Cardinality(DOMAIN v.f) = 1
    /\ \A key \in DOMAIN v.f :
         /\ v.f[key].t = "array"
         /\ CandidateTabular(v.f[key].items)
         /\ SameKeySets(v.f[key].items)
         /\ DOMAIN v.f[key].items[1].f # {}
         /\ \A i \in 1..Len(v.f[key].items) :
              \A k \in DOMAIN v.f[key].items[i].f : IsPrimitive(v.f[key].items[i].f[k])

\* C6: for a root object whose single key holds N >= 1 objects with the same
\* non-empty set of scalar-valued keys, analyzeEligibility returns
\* percentTabular 100, uniformityScore 1 and shouldUseTOON true under the
\* default thresholds, and preProcess returns toonProcessed with metrics.
C6_SingleKeyTableIsEligible ==
    /\ (Analyzed /\ IsSingleKeyTable(call.arg)) =>
          /\ Thresholds = DEFAULT_CONFIG
          /\ call.ret.percentTabular = Whole(100)
          /\ call.ret.uniformityScore = Whole(1)
          /\ call.ret.shouldUseTOON
    /\ (PreProcessed /\ IsSingleKeyTable(call.arg.data)) =>
          /\ call.ret.request.toonProcessed
          /\ "metrics" \in DOMAIN call.ret.request

C6_Witness_TwoRows ==
    /\ PreProcessed
    /\ IsSingleKeyTable(call.arg.data)
    /\ Len(call.arg.data.f["a"].items) = 2
    /\ call.ret.request.toonProcessed

\* the arrays of the analysed tree
Nodes == ArrayNodes(call.arg)

CountedAsTabular(items) == CandidateTabular(items) /\ SameKeySets(items)

C8_SameKeysScoreOne ==
    (Analyzed /\ call.arg.t = "array" /\ CandidateTabular(call.arg.items)
              /\ SameKeySets(call.arg.items)) =>
        /\ call.counters.tabularArrays >= 1
        /\ call.ret.uniformityScore = Whole(1)

\* C9 as claimed: nestedDepth is the greatest depth the traversal reaches from
\* a root at depth 0, and the four-level example yields percentTabular 0,
\* nestedDepth 4 and shouldUseTOON false.
C9_ScenarioBDepthFour ==
    Analyzed =>
        /\ call.ret.nestedDepth = Height(call.arg)
        /\ call.arg = ScenarioB =>
              /\ call.ret.percentTabular = Whole(0)
              /\ call.ret.nestedDepth = 4
              /\ ~call.ret.shouldUseTOON

\* C9 amended: nestedDepth is the greatest depth the traversal reaches from a
\* root at depth 0, scalar leaves included, and the four-level example yields
\* percentTabular 0, nestedDepth 5 and shouldUseTOON false.
C9_ScenarioBDepthFive ==
    Analyzed =>
        /\ call.ret.nestedDepth = Height(call.arg)
        /\ call.arg = ScenarioB =>
              /\ call.ret.percentTabular = Whole(0)
              /\ call.ret.nestedDepth = 5
              /\ ~call.ret.shouldUseTOON

C9_Witness_ScenarioB ==
    /\ Analyzed
    /\ call.arg = ScenarioB
    /\ call.ret.reason = <<[clause |-> "only N% tabular (TOON less beneficial)",
                            N |-> Whole(0)],
                           [clause |-> "deep nesting (D levels)", D |-> 5]>>

\* the object v with an empty array under a further key
WithEmptyArray(v) ==
    Obj([k \in DOMAIN v.f \cup {"empty"} |-> IF k = "empty" THEN EmptyArray ELSE v.f[k]])

\* C10: every array of the tree, the empty ones too, is counted in
\* totalArrays; an empty array is never counted as tabular and adds nothing
\* to the uniformity sum or count, so that adding one lowers percentTabular
\* or leaves it, and leaves uniformityScore as it was.
C10_EmptyArrayNotScored ==
    Analyzed =>
        /\ call.counters.totalArrays = Len(Nodes)
        /\ call.counters.tabularArrays
              <= Len(SelectSeq(Nodes, LAMBDA items : items # <<>>))
        /\ call.arg.t = "object" =>
              LET more == traverse(WithEmptyArray(call.arg), 0)
                  stats == analyzeDataStructure(WithEmptyArray(call.arg))
              IN /\ more.totalArrays = call.counters.totalArrays + 1
                 /\ more.tabularArrays = call.counters.tabularArrays
                 /\ more.uniformitySum = call.counters.uniformitySum
                 /\ more.uniformityCount = call.counters.uniformityCount
                 /\ stats.uniformityScore = call.ret.uniformityScore
                 /\ JSLe(stats.percentTabular, call.ret.percentTabular)

C10_Witness_EmptyBesideTable ==
    /\ Analyzed
    /\ call.arg.t = "object"
    /\ DOMAIN call.arg.f = {"a", "b"}
    /\ call.arg.f["a"] = EmptyArray
    /\ call.counters.totalArrays = 2
    /\ call.counters.tabularArrays = 1
    /\ call.ret.percentTabular = Whole(50)
    /\ call.ret.uniformityScore = Whole(1)

\* C11: for a value with no array anywhere in its tree the analysis yields
\* percentTabular 0 and uniformityScore 1, and shouldUseTOON is false under
\* the default thresholds.
C11_NoArraysNotEligible ==
    (Analyzed /\ Nodes = <<>>) =>
        /\ call.ret.percentTabular = Whole(0)
        /\ call.ret.uniformityScore = Whole(1)
        /\ ~Decide(call.ret, DEFAULT_CONFIG)
        /\ ~call.ret.shouldUseTOON

C11_Witness_NestedObjects ==
    /\ Analyzed
    /\ call.arg = WrapN(2, Num(1))
    /\ Nodes = <<>>
    /\ call.ret.nestedDepth = 2
    /\ ~call.ret.shouldUseTOON

\* C12: for every input value the analysis returns 0 <= percentTabular <= 100,
\* percentTabular = 100 * tabularArrays / totalArrays (0 when there are no
\* arrays), tabularArrays <= totalArrays, nestedDepth a non-negative integer
\* and uniformityScore a number from 0 to 1.
C12_StatsInRange ==
    Analyzed =>
        /\ JSGe(call.ret.percentTabular, Whole(0))
        /\ JSLe(call.ret.percentTabular, Whole(100))
        /\ call.ret.percentTabular =
              (IF call.counters.totalArrays > 0
               THEN Frac(100 * call.counters.tabularArrays, call.counters.totalArrays)
               ELSE Whole(0))
        /\ call.counters.tabularArrays <= call.counters.totalArrays
        /\ call.ret.nestedDepth \in Nat
        /\ JSGe(call.ret.uniformityScore, Whole(0))
        /\ JSLe(call.ret.uniformityScore, Whole(1))

\* n = ceil(len / 4)
IsCeilOfQuarter(n, len) == 4 * n >= len /\ 4 * (n - 1) < len

SavingsComputed == call.op = "calculateTokenSavings" /\ ~call.threw

\* C13: calculateTokenSavings returns original = ceil(length(JSON text) / 4),
\* toon = ceil(length(encoded text) / 4), savings = original - toon, which is
\* below 0 when the encoded text takes more tokens and never above 0 when it
\* is longer, and percentSaved = 100 * savings / original, 0 when original = 0.
C13_TokenSavingsArithmetic ==
    SavingsComputed =>
        LET m == call.ret
            jsonLength == Len(JSONStringify(call.arg))
            toonLength == Len(toonEncode(call.arg))
        IN /\ IsCeilOfQuarter(m.original, jsonLength)
           /\ IsCeilOfQuarter(m.toon, toonLength)
           /\ m.savings = m.original - m.toon
           /\ m.toon > m.original => m.savings < 0
           /\ toonLength > jsonLength => m.savings <= 0
           /\ m.original # 0 => m.percentSaved = Frac(100 * m.savings, m.original)
           /\ m.original = 0 => m.percentSaved = Whole(0)

C13_Witness_EncodedLonger ==
    /\ SavingsComputed
    /\ call.arg = WrapN(5, Num(1))
    /\ call.ret.original = 8
    /\ call.ret.toon = 9
    /\ call.ret.savings = -1
    /\ call.ret.percentSaved = Frac(-25, 2)

\* C14: after updateConfig(c) with an eligibility block in c, getConfig()
\* returns that block field for field; preProcess and postProcess leave what
\* getConfig() returns on every processor as it was; updateConfig with no
\* eligibility key leaves the config as it was.
C14_UpdateConfigHolds ==
    [][\A p \in Procs :
          /\ (call'.op = "updateConfig" /\ call'.this = p
                 /\ "eligibility" \in DOMAIN call'.arg) =>
                TOONProcessor_getConfig(p)'.eligibility = call'.arg.eligibility
          /\ (call'.op = "updateConfig" /\ call'.this = p
                 /\ "eligibility" \notin DOMAIN call'.arg) =>
                TOONProcessor_getConfig(p)' = TOONProcessor_getConfig(p)
          /\ call'.op \in {"preProcess", "postProcess"} =>
                TOONProcessor_getConfig(p)' = TOONProcessor_getConfig(p)]_vars

C14_Witness_Updated ==
    /\ call.op = "updateConfig"
    /\ "eligibility" \in DOMAIN call.arg
    /\ call.arg.eligibility.minTabularPercent = Whole(70)
    /\ TOONProcessor_getConfig(call.this).eligibility = call.arg.eligibility
    /\ \E p \in Procs : TOONProcessor_getConfig(p).eligibility = DEFAULT_CONFIG

\* the requests whose results are compared before and after a step
ProbeRequests == {Request("", Str("value")), Request("", ScenarioA)}

\* the operations on a processor that build or change its Config
ConfigOperations ==
    {"new TOONProcessor", "updateConfig", "set eligibility field", "set eligibility"}

\* C15: no operation on one processor (construction, updateConfig, a write to
\* the object getConfig returns) changes what getConfig or preProcess returns
\* on another processor, nor what analyzeEligibility and preProcessRequest
\* return.
C15_ConfigIsPrivate ==
    [][\A p \in Procs :
          (call'.op \in ConfigOperations /\ call'.this = p) =>
              /\ \A q \in Procs \ {p} :
                    /\ TOONProcessor_getConfig(q)' = TOONProcessor_getConfig(q)
                    /\ \A r \in ProbeRequests :
                          TOONProcessor_preProcessWith(Thresholds', q, r)
                              = TOONProcessor_preProcessWith(Thresholds, q, r)
              /\ \A r \in ProbeRequests :
                    /\ analyzeEligibilityWith(Thresholds', r.data)
                          = analyzeEligibilityWith(Thresholds, r.data)
                    /\ preProcessRequestWith(Thresholds', r)
                          = preProcessRequestWith(Thresholds, r)]_vars

Stricter(a, b) ==
    /\ JSGe(b.minTabularPercent, a.minTabularPercent)
    /\ JSGe(b.minUniformityScore, a.minUniformityScore)
    /\ JSLe(b.maxNestedDepth, a.maxNestedDepth)

\* C17: for fixed stats, raising minTabularPercent, raising
\* minUniformityScore or lowering maxNestedDepth never turns shouldUseTOON
\* from false to true.
C17_DecisionMonotonic ==
    Analyzed =>
        \A t \in ThresholdGrid :
            (Stricter(Thresholds, t) /\ analyzeEligibilityWith(t, call.arg).shouldUseTOON)
                => call.ret.shouldUseTOON

C17_Witness_FlipsToFalse ==
    /\ Analyzed
    /\ call.arg = ScenarioA
    /\ Thresholds # DEFAULT_CONFIG
    /\ call.ret.shouldUseTOON
    /\ \E t \in ThresholdGrid :
          /\ Stricter(Thresholds, t)
          /\ t.maxNestedDepth = Whole(1)
          /\ ~analyzeEligibilityWith(t, call.arg).shouldUseTOON

\* the result the content alone determines
ResultOfContent(response) ==
    IF ~PassesSniff(response.content) THEN NotParsed
    ELSE LET d == toonDecode(response, Trim(response.content))
             j == JSONParse(response.content)
         IN IF d.ok THEN [parsed |-> d.val, success |-> TRUE, format |-> "toon"]
            ELSE IF j.ok
            THEN [parsed |-> j.val, success |-> TRUE, format |-> "json",
                  error |-> "TOON decode failed, fell back to JSON"]
            ELSE [success |-> FALSE, format |-> "none", error |-> "Both formats failed"]

Started == {id \in CallIds : flight[id].pc # "idle"}

\* C19: in every process call llmCall is invoked once, after preProcess and
\* with the request preProcess returned (its systemPrompt aside); postProcess
\* runs once, after llmCall has resolved, on that response; when llmCall
\* rejects, process rejects without running postProcess; parsedResponse is the
\* parsed value when postProcess produced one and the raw content otherwise,
\* and tokenSavings is metrics.savings, or 0 without metrics.
C19_ProcessOrder ==
    \A id \in Started :
        LET c == flight[id]
            pre == TOONProcessor_preProcess(c.this, c.request)
        IN /\ (c.llmPromise = "rejected" /\ c.pc # "failed") => c.pc = "rejected"
           /\ c.pc = "returned" => c.llmPromise = "fulfilled"
           /\ c.events = IF c.pc = "returned"
                         THEN <<"preProcess", "llmCall", "postProcess">>
                         ELSE <<"preProcess", "llmCall">>
           /\ [c.llmArg EXCEPT !.systemPrompt = c.request.systemPrompt] = pre.request
           /\ c.pc = "returned" =>
                 LET post == TOONProcessor_postProcess(c.this, c.llmResponse).ret
                 IN /\ c.result.llmResponse = c.llmResponse
                    /\ c.result.toonRequest = c.llmArg
                    /\ c.result.parsedResponse =
                          (IF "parsed" \in DOMAIN post THEN post.parsed
                           ELSE c.llmResponse.content)
                    /\ c.result.tokenSavings =
                          (IF "metrics" \in DOMAIN pre.request
                           THEN pre.request.metrics.savings ELSE 0)

C19_Witness_ParsedAndRejected ==
    /\ flight[1].pc = "returned"
    /\ flight[1].request.data = ScenarioA
    /\ flight[1].result.tokenSavings > 0
    /\ flight[1].result.parsedResponse = Wrap("a", Arr(<<Num(1)>>))
    /\ flight[2].pc = "rejected"
    /\ flight[2].events = <<"preProcess", "llmCall">>

\* what process(request, llmCall) returns on p's AutoTOON when no other call
\* is in flight and llmCall resolves with response
ResultAlone(p, request, response) ==
    LET pre == TOONProcessor_preProcess(p, request)
        sent == IF AutoConfig(p).addInstructions /\ pre.request.toonProcessed
                THEN [pre.request EXCEPT !.systemPrompt = addTOONInstructions(@)]
                ELSE pre.request
        post == TOONProcessor_postProcess(p, response).ret
    IN [toonRequest |-> sent,
        eligibility |-> pre.eligibility,
        metrics |-> IF "metrics" \in DOMAIN sent THEN sent.metrics ELSE Undefined,
        parsedResponse |-> ParsedOrContent(post, response),
        tokenSavings |-> SavingsOrZero(sent)]

\* C20: however the process calls in flight on the AutoTOONs interleave at
\* their awaits, the toonRequest, eligibility, metrics, parsedResponse and
\* tokenSavings a call returns are those it returns when run alone with the
\* same request and the same llm response.
C20_InterleavedAsAlone ==
    \A id \in Started :
        flight[id].pc = "returned" =>
            LET c == flight[id]
                alone == ResultAlone(c.this, c.request, c.llmResponse)
            IN \A field \in DOMAIN alone : c.result[field] = alone[field]

C20_Witness_ReturnedDuringAwait ==
    /\ flight[1].pc = "awaiting"
    /\ flight[2].pc = "returned"
    /\ flight[1].this = "p1"
    /\ flight[2].this = "p1"
    /\ flight[1].request.data = ScenarioA
    /\ flight[2].request.data = ScenarioB
    /\ flight[2].result.tokenSavings = 0

\* C21: llmCall is passed the request's systemPrompt followed by the TOON
\* instructions, once, when addInstructions is enabled and the request was
\* toonProcessed, and the request's systemPrompt as it is in every other
\* case; the caller's request, which the result returns as originalRequest,
\* keeps its systemPrompt and its data.
C21_InstructionsOnceOnCopy ==
    \A id \in Started :
        LET c == flight[id]
        IN /\ c.request \in ProcessRequests
           /\ c.llmArg.systemPrompt =
                 (IF AutoConfig(c.this).addInstructions /\ c.llmArg.toonProcessed
                  THEN c.request.systemPrompt \o TOONInstructions
                  ELSE c.request.systemPrompt)
           /\ c.llmArg.toonProcessed = c.eligibility.shouldUseTOON
           /\ c.pc = "returned" =>
                 /\ c.result.originalRequest = c.request
                 /\ c.result.originalRequest \in ProcessRequests

C21_Witness_WithAndWithout ==
    /\ flight[1].pc = "returned"
    /\ flight[1].this = "p1"
    /\ flight[1].request.data = ScenarioA
    /\ flight[1].llmArg.systemPrompt = "You are a data analyst." \o TOONInstructions
    /\ flight[1].result.originalRequest.systemPrompt = "You are a data analyst."
    /\ flight[1].result.originalRequest.data = ScenarioA
    /\ flight[2].pc = "awaiting"
    /\ flight[2].this = "p2"
    /\ flight[2].request.data = ScenarioA
    /\ flight[2].llmArg.toonProcessed
    /\ flight[2].llmArg.systemPrompt = "You are a data analyst."

\* the place of a clause in the order the reason is built in
ClauseRank(clause) ==
    IF clause \in {"highly tabular data (ideal for TOON)",
                   "moderately tabular data (good fit for TOON)",
                   "only N% tabular (TOON less beneficial)"} THEN 1
    ELSE IF clause = "deep nesting (D levels)" THEN 2
    ELSE IF clause = "low uniformity score (S)" THEN 3
    ELSE 0

\* the clauses that speak against TOON
NegativeClauses ==
    {"only N% tabular (TOON less beneficial)", "deep nesting (D levels)",
     "low uniformity score (S)"}

\* the clauses of a reason are in order, the tabularity clause first
ClausesInOrder(reason) ==
    /\ Len(reason) >= 1
    /\ ClauseRank(reason[1].clause) = 1
    /\ \A i \in 1..Len(reason) - 1 :
          ClauseRank(reason[i].clause) < ClauseRank(reason[i + 1].clause)

\* C22: under the default thresholds, for every input, shouldUseTOON is false
\* if and only if the reason holds at least one of the clauses "only N%
\* tabular", "deep nesting (D levels)" and "low uniformity score (S)"; the
\* clauses come in that order and the tabularity clause is always there and
\* first.
C22_ReasonAgreesWithDecision ==
    Analyzed =>
        /\ Thresholds = DEFAULT_CONFIG
        /\ ClausesInOrder(call.ret.reason)
        /\ (~call.ret.shouldUseTOON) <=>
              (\E i \in 1..Len(call.ret.reason) :
                  call.ret.reason[i].clause \in NegativeClauses)

====
